---- MODULE Spec2Model ----
(***************************************************************************)
(* Model of the football-intelligence-agent Lambda (lambda/index.js):      *)
(* the static FOOTBALL_DATA table, detectFootballIntent,                   *)
(* processFootballQuery and exports.handler with its single await on the   *)
(* text-generation client.  JavaScript strings are TLA+ strings and are    *)
(* inspected character by character (SubSeq(s, i, i)); a JavaScript value  *)
(* that may be undefined, null, a number, a boolean or a string is a       *)
(* record [type, val].                                                     *)
(***************************************************************************)
EXTENDS Integers, Sequences, FiniteSets, TLC

VARIABLES
    NODE_ENV,        \* process.env.NODE_ENV of the running function
    pc,              \* position of the current invocation of exports.handler
    event,           \* the event.body of the current invocation
    userQuery,       \* body.query
    footballIntent,  \* result of detectFootballIntent(userQuery)
    footballContext, \* result of processFootballQuery(footballIntent), or ""
    sent,            \* user messages handed to anthropic.messages.create
    outcome,         \* how the awaited call settled: "none", "resolved", "rejected"
    error,           \* the error the catch block received, if any
    response,        \* the value the handler returned
    trace            \* the steps the invocation has executed, in order

vars == <<NODE_ENV, pc, event, userQuery, footballIntent, footballContext,
          sent, outcome, error, response, trace>>

-----------------------------------------------------------------------------
(* Bounds of the explored inputs *)

MaxWords == 2

-----------------------------------------------------------------------------
(* JavaScript values *)

Undefined == [type |-> "undefined", val |-> ""]
JSNull == [type |-> "null", val |-> ""]
Str(s) == [type |-> "string", val |-> s]
Num(s) == [type |-> "number", val |-> s]
Bool(s) == [type |-> "boolean", val |-> s]

\* ToBoolean, as applied by `!userQuery`
Truthy(v) ==
    CASE v.type = "undefined" -> FALSE
      [] v.type = "null" -> FALSE
      [] v.type = "string" -> v.val # ""
      [] v.type = "number" -> v.val \notin {"0", "NaN"}
      [] v.type = "boolean" -> v.val = "true"
      [] OTHER -> TRUE

-----------------------------------------------------------------------------
(* String primitives *)

CharAt(s, i) == SubSeq(s, i, i)

UpperCaseLetters == "ABCDEFGHIJKLMNOPQRSTUVWXYZ"
LowerCaseLetters == "abcdefghijklmnopqrstuvwxyz"

\* the lower-case letter of every upper-case letter
LowerOf ==
    [c \in {CharAt(UpperCaseLetters, i) : i \in 1..26} |->
        CharAt(LowerCaseLetters, CHOOSE i \in 1..26 : CharAt(UpperCaseLetters, i) = c)]

LowerChar(c) == IF c \in DOMAIN LowerOf THEN LowerOf[c] ELSE c

RECURSIVE toLowerCase(_)
toLowerCase(s) ==
    IF s = "" THEN "" ELSE LowerChar(CharAt(s, 1)) \o toLowerCase(Tail(s))

\* s has the literal p at index i
StartsAt(s, p, i) == i >= 1 /\ i + Len(p) - 1 <= Len(s) /\ SubSeq(s, i, i + Len(p) - 1) = p

\* String.prototype.includes
includes(s, p) == \E i \in 1..(Len(s) + 1) : StartsAt(s, p, i)

\* String.prototype.replace with a string pattern: the first occurrence only
replace(s, p, r) ==
    IF includes(s, p)
    THEN LET i == CHOOSE k \in 1..Len(s) :
                     StartsAt(s, p, k) /\ \A j \in 1..(k - 1) : ~StartsAt(s, p, j)
         IN  SubSeq(s, 1, i - 1) \o r \o SubSeq(s, i + Len(p), Len(s))
    ELSE s

RECURSIVE join(_, _)
join(parts, sep) ==
    IF Len(parts) = 0 THEN ""
    ELSE IF Len(parts) = 1 THEN parts[1]
    ELSE parts[1] \o sep \o join(Tail(parts), sep)

\* the characters the regular-expression dot does not match
LineTerminators == {"\n", "\r"}

\* RegExp.prototype.test for the patterns of this program.  A pattern is the
\* sequence of its literals: <<"score">> is /score/ and <<"when", "play">>
\* is /when.*play/.
test(pattern, s) ==
    IF Len(pattern) = 1 THEN includes(s, pattern[1])
    ELSE \E i \in 1..Len(s) : \E j \in 1..Len(s) :
            /\ StartsAt(s, pattern[1], i)
            /\ j >= i + Len(pattern[1])
            /\ StartsAt(s, pattern[2], j)
            /\ \A k \in (i + Len(pattern[1]))..(j - 1) : CharAt(s, k) \notin LineTerminators

-----------------------------------------------------------------------------
(* The static data *)

\* the keys of FOOTBALL_DATA.teams in insertion order (the order of Object.values)
TeamKeys == <<"real_madrid", "manchester_city", "barcelona">>

\* a letter outside ASCII is written as its JavaScript escape sequence
FOOTBALL_DATA ==
    [teams |->
        [real_madrid |->
            [name |-> "Real Madrid", league |-> "La Liga", position |-> 1, points |-> 45,
             nextMatch |-> [opponent |-> "Barcelona", date |-> "January 15, 2025",
                            time |-> "21:00 CET", venue |-> "Santiago Bernab\\u00e9u"],
             topScorer |-> [name |-> "Vin\\u00edcius Jr.", goals |-> 12],
             recentForm |-> "WWDWW"],
         manchester_city |->
            [name |-> "Manchester City", league |-> "Premier League", position |-> 1, points |-> 48,
             nextMatch |-> [opponent |-> "Liverpool", date |-> "January 14, 2025",
                            time |-> "16:30 GMT", venue |-> "Etihad Stadium"],
             topScorer |-> [name |-> "Erling Haaland", goals |-> 18],
             recentForm |-> "WWWDW"],
         barcelona |->
            [name |-> "FC Barcelona", league |-> "La Liga", position |-> 2, points |-> 42,
             nextMatch |-> [opponent |-> "Real Madrid", date |-> "January 15, 2025",
                            time |-> "21:00 CET", venue |-> "Santiago Bernab\\u00e9u"],
             topScorer |-> [name |-> "Robert Lewandowski", goals |-> 15],
             recentForm |-> "WDWWD"]],
     liveMatches |->
        <<[matchId |-> "match_001", competition |-> "Premier League", home |-> "Arsenal",
           away |-> "Chelsea", score |-> "2-1", minute |-> 73, status |-> "LIVE"]>>]

-----------------------------------------------------------------------------
(* detectFootballIntent *)

\* the intents object, as the sequence of its entries in declaration order
intents ==
    <<[name |-> "nextMatch",
       patterns |-> <<(<<"when", "play">>), (<<"next match">>), (<<"next game">>), (<<"upcoming">>)>>],
      [name |-> "liveScore",
       patterns |-> <<(<<"score">>), (<<"result">>), (<<"how", "doing">>), (<<"winning">>)>>],
      [name |-> "standings",
       patterns |-> <<(<<"table">>), (<<"standings">>), (<<"position">>), (<<"league leader">>), (<<"points">>)>>]>>

\* the alternatives of teamPatterns, in order
teamPatterns == <<"real madrid", "barcelona", "manchester city", "liverpool", "arsenal", "chelsea">>

\* lowerQuery.match(teamPatterns): the leftmost match, and at that index the
\* first alternative; <<>> when there is none (null)
teamMatch(lowerQuery) ==
    LET text == toLowerCase(lowerQuery)   \* the i flag
        hit(i, a) == StartsAt(text, teamPatterns[a], i)
        hits == {i \in 1..Len(lowerQuery) : \E a \in 1..Len(teamPatterns) : hit(i, a)}
    IN  IF hits = {} THEN <<>>
        ELSE LET i == CHOOSE k \in hits : \A j \in hits : k <= j
                 a == CHOOSE b \in 1..Len(teamPatterns) :
                          hit(i, b) /\ \A c \in 1..(b - 1) : ~hit(i, c)
             IN  <<SubSeq(lowerQuery, i, i + Len(teamPatterns[a]) - 1)>>

\* variant: the last matching intent instead of the first
FirstMatchLast(entries, lowerQuery) ==
    LET matching == {n \in 1..Len(entries) :
                        \E p \in 1..Len(entries[n].patterns) : test(entries[n].patterns[p], lowerQuery)}
    IN  IF matching = {} THEN 0 ELSE CHOOSE n \in matching : \A m \in matching : n >= m

\* variant: the first intent when no pattern matches
FirstMatchDefault(entries, lowerQuery) ==
    LET matching == {n \in 1..Len(entries) :
                        \E p \in 1..Len(entries[n].patterns) : test(entries[n].patterns[p], lowerQuery)}
    IN  IF matching = {} THEN 1 ELSE CHOOSE n \in matching : \A m \in matching : n <= m

\* the first intent, in the order of the entries, one of whose patterns matches
FirstMatch(entries, lowerQuery) ==
    LET matching == {n \in 1..Len(entries) :
                        \E p \in 1..Len(entries[n].patterns) : test(entries[n].patterns[p], lowerQuery)}
    IN  IF matching = {} THEN 0 ELSE CHOOSE n \in matching : \A m \in matching : n <= m

\* the null result; a result object has type "object"
NoIntent == [type |-> "null", intent |-> "", team |-> JSNull]

detectFootballIntent(query) ==
    LET lowerQuery == toLowerCase(query)
        m == teamMatch(lowerQuery)
        n == FirstMatch(intents, lowerQuery)
    IN  IF n = 0 THEN NoIntent
        ELSE [type |-> "object",
              intent |-> intents[n].name,
              team |-> IF Len(m) > 0 THEN Str(replace(toLowerCase(m[1]), " ", "_")) ELSE JSNull]

-----------------------------------------------------------------------------
(* processFootballQuery *)

\* Object.values(FOOTBALL_DATA.teams)
ObjectValues(teams) == [i \in 1..Len(TeamKeys) |-> teams[TeamKeys[i]]]

\* variant: ascending points
byPointsAscending(a, b) == a.points - b.points

\* the comparator handed to sort: (a, b) => b.points - a.points
byPointsDescending(a, b) == b.points - a.points

\* Array.prototype.sort with that comparator: a stable insertion sort
RECURSIVE InsertSorted(_, _)
InsertSorted(sorted, x) ==
    IF Len(sorted) = 0 THEN <<x>>
    ELSE IF byPointsDescending(Head(sorted), x) <= 0
         THEN <<Head(sorted)>> \o InsertSorted(Tail(sorted), x)
         ELSE <<x>> \o sorted

RECURSIVE sort(_)
sort(arr) ==
    IF Len(arr) = 0 THEN <<>>
    ELSE InsertSorted(sort(SubSeq(arr, 1, Len(arr) - 1)), arr[Len(arr)])

slice(arr, from, to) == SubSeq(arr, from + 1, IF to < Len(arr) THEN to ELSE Len(arr))

\* the predicate handed to filter: t => t.league === "La Liga"
isLaLiga(t) == t.league = "La Liga"

laLigaTeams == slice(sort(SelectSeq(ObjectValues(FOOTBALL_DATA.teams), isLaLiga)), 0, 3)

\* variant: the team is looked up by the first key when it is not in the table
nextMatchContextAnyTeam(intent) ==
    IF Truthy(intent.team)
    THEN LET team == IF intent.team.val \in DOMAIN FOOTBALL_DATA.teams
                     THEN FOOTBALL_DATA.teams[intent.team.val]
                     ELSE FOOTBALL_DATA.teams[TeamKeys[1]]
         IN  "Next match: " \o team.name \o " vs " \o team.nextMatch.opponent \o " on "
             \o team.nextMatch.date \o " at " \o team.nextMatch.time \o " at "
             \o team.nextMatch.venue \o ". Recent form: " \o team.recentForm
    ELSE ""

nextMatchContext(intent) ==
    IF Truthy(intent.team) /\ intent.team.val \in DOMAIN FOOTBALL_DATA.teams
    THEN LET team == FOOTBALL_DATA.teams[intent.team.val]
         IN  "Next match: " \o team.name \o " vs " \o team.nextMatch.opponent \o " on "
             \o team.nextMatch.date \o " at " \o team.nextMatch.time \o " at "
             \o team.nextMatch.venue \o ". Recent form: " \o team.recentForm
    ELSE ""

liveScoreContext ==
    IF Len(FOOTBALL_DATA.liveMatches) > 0
    THEN LET liveMatch == FOOTBALL_DATA.liveMatches[1]
         IN  "Live match: " \o liveMatch.home \o " " \o liveMatch.score \o " " \o liveMatch.away
             \o " (" \o ToString(liveMatch.minute) \o "'). Competition: " \o liveMatch.competition
    ELSE ""

standingsContext ==
    "La Liga standings: "
    \o join([i \in 1..Len(laLigaTeams) |->
                ToString(i) \o ". " \o laLigaTeams[i].name \o " ("
                \o ToString(laLigaTeams[i].points) \o " pts)"], ", ")

processFootballQuery(intent) ==
    CASE intent.intent = "nextMatch" -> nextMatchContext(intent)
      [] intent.intent = "liveScore" -> liveScoreContext
      [] intent.intent = "standings" -> standingsContext
      [] OTHER -> ""
-----------------------------------------------------------------------------
(* Requests and upstream behaviours explored *)

\* pieces of query text; a query is up to MaxWords of them, joined by spaces
Chunks ==
    {"When does", "When\ndoes", "play", "next match", "score", "table",
     "Real Madrid", "Manchester City's", "Liverpool", "Who is leading La Liga?"}

RECURSIVE QueriesOf(_)
QueriesOf(n) ==
    IF n = 1 THEN Chunks
    ELSE LET shorter == QueriesOf(n - 1)
         IN  shorter \cup {q \o " " \o c : q \in shorter, c \in Chunks}

Queries == QueriesOf(MaxWords)

\* event.body: absent, not JSON, the JSON text null, or a JSON object whose
\* query property is absent or holds a JSON value
Bodies ==
    {[kind |-> "undefined", query |-> Undefined],
     [kind |-> "invalid", query |-> Undefined],
     [kind |-> "null", query |-> Undefined]}
    \cup {[kind |-> "object", query |-> v] :
             v \in {Undefined, JSNull, Str(""), Num("0"), Num("7"), Bool("false"), Bool("true")}}
    \cup {[kind |-> "object", query |-> Str(q)] : q \in Queries}

NodeEnvs == {"production", "development", "test"}

\* message.content of a resolved call: one text block, or none
Contents == {<<[type |-> "text", text |-> "Real Madrid host Barcelona on January 15."]>>, <<>>}

\* error.message of a rejected call
RejectionMessages ==
    {"Connection error.",
     "401 authentication_error: invalid x-api-key",
     "429 rate_limit_error: quota exceeded",
     "request to https://api.anthropic.com/v1/messages failed, reason: getaddrinfo ENOTFOUND api.anthropic.com"}

-----------------------------------------------------------------------------
(* exports.handler *)

NoError == [name |-> "", message |-> ""]
NoResponse == [statusCode |-> 0, body |-> <<>>]

\* JSON.parse(event.body) followed by the read of body.query
JSONParse(body) ==
    CASE body.kind = "undefined" ->
            [threw |-> TRUE, query |-> Undefined,
             error |-> [name |-> "SyntaxError", message |-> "Unexpected token u in JSON at position 0"]]
      [] body.kind = "invalid" ->
            [threw |-> TRUE, query |-> Undefined,
             error |-> [name |-> "SyntaxError", message |-> "Unexpected token q in JSON at position 1"]]
      [] body.kind = "null" ->
            [threw |-> TRUE, query |-> Undefined,
             error |-> [name |-> "TypeError", message |-> "Cannot read properties of null (reading 'query')"]]
      [] OTHER -> [threw |-> FALSE, query |-> body.query, error |-> NoError]

\* JSON.stringify of an object literal, given as its entries: a property whose
\* value is undefined is left out
hasValue(entry) == entry.value.type # "undefined"

JSONStringify(entries) == SelectSeq(entries, hasValue)

\* variant: the detail is always included
detailsAlways(e) == Str(e.message)

\* the details property of both failure bodies
details(e) == IF NODE_ENV = "development" THEN Str(e.message) ELSE Undefined

\* variant: every caught error is reported as 503
CatchAll503(e) ==
    [statusCode |-> 503,
     body |-> JSONStringify(<<
         [key |-> "error",
          value |-> Str("The AI assistant is temporarily offside. Please try again later!")],
         [key |-> "details", value |-> details(e)]>>)]

\* the catch block
Catch(e) ==
    IF includes(e.message, "anthropic")
    THEN [statusCode |-> 503,
          body |-> JSONStringify(<<
              [key |-> "error",
               value |-> Str("The AI assistant is temporarily offside. Please try again later!")],
              [key |-> "details", value |-> details(e)]>>)]
    ELSE [statusCode |-> 500,
          body |-> JSONStringify(<<
              [key |-> "error", value |-> Str("An unexpected error occurred")],
              [key |-> "details", value |-> details(e)]>>)]

MissingQuery ==
    [statusCode |-> 400,
     body |-> JSONStringify(<<[key |-> "error", value |-> Str("Missing query parameter")]>>)]

userPrompt(query, context) ==
    IF context # ""
    THEN "User question: " \o query \o "\n\nCurrent football data: " \o context
    ELSE query

\* variant: hasContext reports that an intent was detected
SuccessIntentAsContext(text, intent, context) ==
    [statusCode |-> 200,
     body |-> JSONStringify(<<
         [key |-> "response", value |-> Str(text)],
         [key |-> "metadata.intent",
          value |-> Str(IF intent.type # "null" /\ intent.intent # "" THEN intent.intent ELSE "general")],
         [key |-> "metadata.hasContext", value |-> Bool(IF intent.type # "null" THEN "true" ELSE "false")]>>)]

Success(text, intent, context) ==
    [statusCode |-> 200,
     body |-> JSONStringify(<<
         [key |-> "response", value |-> Str(text)],
         [key |-> "metadata.intent",
          value |-> Str(IF intent.type # "null" /\ intent.intent # "" THEN intent.intent ELSE "general")],
         [key |-> "metadata.hasContext", value |-> Bool(IF context # "" THEN "true" ELSE "false")]>>)]

\* the handler returns r
Return(r) ==
    /\ response' = r
    /\ pc' = "returned"
    /\ trace' = Append(trace, "return")

\* the handler throws e inside the try block
Throw(e) ==
    /\ error' = e
    /\ Return(Catch(e))

Invoke(body) ==
    /\ pc = "idle"
    /\ pc' = "entered"
    /\ event' = body
    /\ userQuery' = Undefined
    /\ footballIntent' = NoIntent
    /\ footballContext' = ""
    /\ sent' = <<>>
    /\ outcome' = "none"
    /\ error' = NoError
    /\ response' = NoResponse
    /\ trace' = <<>>
    /\ UNCHANGED NODE_ENV

ParseRequest ==
    /\ pc = "entered"
    /\ LET parsed == JSONParse(event)
       IN  IF parsed.threw
           THEN Throw(parsed.error) /\ UNCHANGED userQuery
           ELSE /\ userQuery' = parsed.query
                /\ UNCHANGED error
                /\ IF ~Truthy(parsed.query)
                   THEN Return(MissingQuery)
                   ELSE pc' = "detect" /\ UNCHANGED <<response, trace>>
    /\ UNCHANGED <<NODE_ENV, event, footballIntent, footballContext, sent, outcome>>

DetectIntent ==
    /\ pc = "detect"
    /\ IF userQuery.type # "string"
       THEN /\ Throw([name |-> "TypeError", message |-> "query.toLowerCase is not a function"])
            /\ UNCHANGED footballIntent
       ELSE /\ footballIntent' = detectFootballIntent(userQuery.val)
            /\ pc' = "context"
            /\ trace' = Append(trace, "classify")
            /\ UNCHANGED <<error, response>>
    /\ UNCHANGED <<NODE_ENV, event, userQuery, footballContext, sent, outcome>>

BuildContext ==
    /\ pc = "context"
    /\ footballContext' = IF footballIntent.type # "null"
                          THEN processFootballQuery(footballIntent)
                          ELSE ""
    /\ trace' = Append(trace, "context")
    /\ pc' = "call"
    /\ UNCHANGED <<NODE_ENV, event, userQuery, footballIntent, sent, outcome, error, response>>

CallUpstream ==
    /\ pc = "call"
    /\ sent' = Append(sent, [model |-> "claude-3-5-sonnet-20241022", max_tokens |-> 300,
                             content |-> userPrompt(userQuery.val, footballContext)])
    /\ pc' = "awaiting"
    /\ trace' = Append(trace, "upstream")
    /\ UNCHANGED <<NODE_ENV, event, userQuery, footballIntent, footballContext, outcome, error, response>>

UpstreamResolves(content) ==
    /\ pc = "awaiting"
    /\ outcome' = "resolved"
    /\ IF Len(content) = 0
       THEN Throw([name |-> "TypeError",
                   message |-> "Cannot read properties of undefined (reading 'text')"])
       ELSE /\ Return(Success(content[1].text, footballIntent, footballContext))
            /\ UNCHANGED error
    /\ UNCHANGED <<NODE_ENV, event, userQuery, footballIntent, footballContext, sent>>

UpstreamRejects(message) ==
    /\ pc = "awaiting"
    /\ outcome' = "rejected"
    /\ Throw([name |-> "Error", message |-> message])
    /\ UNCHANGED <<NODE_ENV, event, userQuery, footballIntent, footballContext, sent>>

Init ==
    /\ NODE_ENV \in NodeEnvs
    /\ pc = "idle"
    /\ event = [kind |-> "undefined", query |-> Undefined]
    /\ userQuery = Undefined
    /\ footballIntent = NoIntent
    /\ footballContext = ""
    /\ sent = <<>>
    /\ outcome = "none"
    /\ error = NoError
    /\ response = NoResponse
    /\ trace = <<>>

Next ==
    \/ \E body \in Bodies : Invoke(body)
    \/ ParseRequest
    \/ DetectIntent
    \/ BuildContext
    \/ CallUpstream
    \/ \E content \in Contents : UpstreamResolves(content)
    \/ \E message \in RejectionMessages : UpstreamRejects(message)

Spec == Init /\ [][Next]_vars
-----------------------------------------------------------------------------
(* Properties *)

Has(body, key) == \E i \in 1..Len(body) : body[i].key = key
Get(body, key) == body[CHOOSE i \in 1..Len(body) : body[i].key = key].value

Did(step) == \E i \in 1..Len(trace) : trace[i] = step
Times(step) == Cardinality({i \in 1..Len(trace) : trace[i] = step})

\* the stated priority order and the trigger patterns of each intent
PriorityOrder == <<"nextMatch", "liveScore", "standings">>

Triggers(name) ==
    CASE name = "nextMatch" -> {<<"when", "play">>, <<"next match">>, <<"next game">>, <<"upcoming">>}
      [] name = "liveScore" -> {<<"score">>, <<"result">>, <<"how", "doing">>, <<"winning">>}
      [] name = "standings" -> {<<"table">>, <<"standings">>, <<"position">>, <<"league leader">>, <<"points">>}

MatchesLower(lower, name) == \E pattern \in Triggers(name) : test(pattern, lower)

Matches(q, name) == MatchesLower(toLowerCase(q), name)

MatchingRanks(q) ==
    LET lower == toLowerCase(q)
    IN  {k \in 1..3 : MatchesLower(lower, PriorityOrder[k])}

KnownTeamKeys == {"real_madrid", "manchester_city", "barcelona"}

\* C1: when detectFootballIntent has returned, a query that matches trigger
\* patterns of two different intents is classified as the one that comes
\* first in the order NEXT_MATCH, LIVE_SCORE, STANDINGS; a query matching both
\* a NEXT_MATCH and a LIVE_SCORE pattern is classified NEXT_MATCH.
C1_PriorityOrder ==
    pc = "context" =>
        LET ranks == MatchingRanks(userQuery.val)
        IN  Cardinality(ranks) >= 2 =>
                /\ footballIntent.type = "object"
                /\ \E k \in ranks : /\ \A m \in ranks : k <= m
                                    /\ footballIntent.intent = PriorityOrder[k]

C1_Witness ==
    /\ Did("classify")
    /\ Matches(userQuery.val, "nextMatch")
    /\ Matches(userQuery.val, "liveScore")
    /\ StartsAt(userQuery.val, "score", 1)
    /\ footballIntent.intent = "nextMatch"

QueryMissingOrEmpty(body) ==
    \/ body.kind \in {"undefined", "null"}
    \/ body.kind = "object" /\ body.query.type = "undefined"
    \/ body.kind = "object" /\ body.query = Str("")

\* C2: a request whose query field is missing or empty is answered with
\* status 400, and neither the classifier nor the upstream call is invoked.
C2_MissingQueryIs400 ==
    (pc = "returned" /\ QueryMissingOrEmpty(event)) =>
        /\ response.statusCode = 400
        /\ ~Did("classify")
        /\ ~Did("upstream")

\* C3: whenever the upstream call fails, the response is status 503 with the
\* fallback message.
C3_UpstreamFailureIs503 ==
    (pc = "returned" /\ outcome = "rejected") =>
        /\ response.statusCode = 503
        /\ Get(response.body, "error")
             = Str("The AI assistant is temporarily offside. Please try again later!")

\* C4: the query "Who is leading La Liga?" is classified STANDINGS and its
\* context lists Real Madrid (45 pts) first and then Barcelona (42 pts).
C4_WhoIsLeadingLaLiga ==
    (Did("context") /\ userQuery = Str("Who is leading La Liga?")) =>
        /\ footballIntent.intent = "standings"
        /\ includes(footballContext, "1. Real Madrid (45 pts), 2. FC Barcelona (42 pts)")

\* C5: on both failure paths (503 and 500) the failure detail is absent from
\* the body when NODE_ENV is production; it is present only when NODE_ENV is
\* not production, and then it is the message of the caught error.
C5_NoDetailInProduction ==
    (pc = "returned" /\ response.statusCode \in {500, 503}) =>
        /\ NODE_ENV = "production" => ~Has(response.body, "details")
        /\ Has(response.body, "details") =>
              /\ NODE_ENV # "production"
              /\ Get(response.body, "details") = Str(error.message)

C5_Witness ==
    /\ pc = "returned"
    /\ NODE_ENV = "production"
    /\ response.statusCode = 503
    /\ outcome = "rejected"
    /\ ~Has(response.body, "details")

\* C6: the context of a NEXT_MATCH classification is the empty string when
\* the team is absent or is not a key of the team table, and otherwise a
\* non-empty sentence naming the team, opponent, date, time, venue and
\* recent form of that team's record.
C6_NextMatchContext ==
    (Did("context") /\ footballIntent.intent = "nextMatch") =>
        IF footballIntent.team.type = "string" /\ footballIntent.team.val \in KnownTeamKeys
        THEN LET record == FOOTBALL_DATA.teams[footballIntent.team.val]
             IN  /\ footballContext # ""
                 /\ includes(footballContext, record.name)
                 /\ includes(footballContext, " vs " \o record.nextMatch.opponent)
                 /\ includes(footballContext, " on " \o record.nextMatch.date)
                 /\ includes(footballContext, " at " \o record.nextMatch.time)
                 /\ includes(footballContext, " at " \o record.nextMatch.venue)
                 /\ includes(footballContext, "Recent form: " \o record.recentForm)
        ELSE footballContext = ""

C6_Witness ==
    /\ Did("context")
    /\ footballIntent.intent = "nextMatch"
    /\ footballIntent.team = Str("liverpool")
    /\ footballContext = ""

\* C7: a query that matches no trigger pattern yields no intent, whether or
\* not a known team name occurs in it, and the context of the request is the
\* empty string: the message sent upstream is the query as it came.
C7_NoPatternNoIntent ==
    /\ (pc = "call" /\ MatchingRanks(userQuery.val) = {}) =>
            /\ footballIntent.type = "null"
            /\ footballContext = ""
    /\ (Did("upstream") /\ footballIntent.type = "null") =>
            /\ footballContext = ""
            /\ sent[1].content = userQuery.val

C7_Witness ==
    /\ Did("upstream")
    /\ MatchingRanks(userQuery.val) = {}
    /\ includes(toLowerCase(userQuery.val), "real madrid")
    /\ footballIntent.type = "null"
    /\ footballContext = ""
    /\ sent[1].content = userQuery.val

\* the rendering of a standings context that lists the teams of keys
Listing(keys) ==
    "La Liga standings: "
    \o join([i \in 1..Len(keys) |->
                ToString(i) \o ". " \o FOOTBALL_DATA.teams[keys[i]].name \o " ("
                \o ToString(FOOTBALL_DATA.teams[keys[i]].points) \o " pts)"], ", ")

KeyLists == UNION {[1..n -> KnownTeamKeys] : n \in 0..3}

IsPrefixOf(s, t) == Len(s) <= Len(t) /\ SubSeq(t, 1, Len(s)) = s

\* the steps run in the order classify, context, upstream, return
OrderedTrace ==
    \/ IsPrefixOf(trace, <<"classify", "context", "upstream", "return">>)
    \/ trace = <<"classify", "return">>
    \/ trace = <<"return">>

OneResponse ==
    /\ (pc = "returned") = (response # NoResponse)
    /\ (pc = "returned") = (Times("return") = 1)
    /\ pc = "returned" => response.statusCode \in {200, 400, 500, 503}
    /\ Times("return") <= 1
    /\ Len(sent) <= 1
    /\ Len(sent) = Times("upstream")

\* C9 as stated: one response out of 200, 400, 503, 500; the steps in the
\* order classify, build context, upstream call, return; at most one
\* upstream call; a failure response (503 or 500) only when the upstream call
\* was attempted and failed; a 200 only after the upstream call succeeded.
C9_FailureOnlyFromUpstream ==
    /\ OneResponse
    /\ OrderedTrace
    /\ (pc = "returned" /\ response.statusCode \in {500, 503}) =>
            (Did("upstream") /\ outcome = "rejected")
    /\ (pc = "returned" /\ response.statusCode = 200) =>
            (Did("upstream") /\ outcome = "resolved")

\* C9 amended: as above, except that a 500 response is also produced,
\* without a failed upstream call, when the request body cannot be read as an
\* object, when the query is not a string, or when the upstream reply holds
\* no content block; a 503 only when the upstream call was attempted and
\* failed.
C9_OneOrderedResponse ==
    /\ OneResponse
    /\ OrderedTrace
    /\ (pc = "returned" /\ response.statusCode = 503) =>
            (Did("upstream") /\ outcome = "rejected")
    /\ (pc = "returned" /\ response.statusCode = 500) =>
            \/ Did("upstream") /\ outcome = "rejected"
            \/ ~Did("classify") /\ event.kind \in {"undefined", "invalid", "null"}
            \/ ~Did("classify") /\ event.kind = "object" /\ event.query.type # "string"
            \/ Did("upstream") /\ outcome = "resolved" /\ error.name = "TypeError"
    /\ (pc = "returned" /\ response.statusCode = 200) =>
            (Did("upstream") /\ outcome = "resolved" /\ error = NoError)

C9_Witness ==
    /\ pc = "returned"
    /\ response.statusCode = 500
    /\ ~Did("upstream")
    /\ event.kind = "object"
    /\ event.query = Num("7")
    /\ trace = <<"return">>

\* C10: in a 200 response hasContext is true exactly when the message sent
\* upstream was the query extended with the "Current football data:" line
\* and false exactly when it was the raw query; metadata.intent is general
\* exactly when no intent was detected; hasContext implies a detected intent.
C10_Metadata ==
    (pc = "returned" /\ response.statusCode = 200) =>
        LET hasContext == Get(response.body, "metadata.hasContext")
            intent == Get(response.body, "metadata.intent")
            message == sent[1].content
            extended == "User question: " \o userQuery.val
                        \o "\n\nCurrent football data: " \o footballContext
        IN  /\ Len(sent) = 1
            /\ hasContext \in {Bool("true"), Bool("false")}
            /\ (hasContext = Bool("true")) = (message = extended /\ footballContext # "")
            /\ (hasContext = Bool("false")) = (message = userQuery.val)
            /\ (intent = Str("general")) = (footballIntent.type = "null")
            /\ hasContext = Bool("true") =>
                  intent \in {Str("nextMatch"), Str("liveScore"), Str("standings")}

C10_Witness ==
    /\ pc = "returned"
    /\ response.statusCode = 200
    /\ Get(response.body, "metadata.hasContext") = Bool("false")
    /\ Get(response.body, "metadata.intent") = Str("nextMatch")
    /\ sent[1].content = userQuery.val

====
